---- MODULE Spec2Model ----
(***************************************************************************)
(* Model of the InheritX backend's challenge/response core:                *)
(*   - wallet login: get_nonce / web3_login          (backend/src/auth.rs)  *)
(*   - OTP, transactional: send_2fa / verify_2fa_internal      (auth.rs)    *)
(*   - OTP, statement-at-a-time: store_otp / verify_otp_from_db             *)
(*                         (backend/src/two_fa.rs, two_fa/service.rs)       *)
(* The database is PostgreSQL at READ COMMITTED: a statement sees the      *)
(* committed rows, SELECT ... FOR UPDATE / UPDATE / DELETE / the UPDATE arm *)
(* of an upsert wait for the row lock, a transaction's writes become       *)
(* visible at COMMIT, and dropping an uncommitted transaction rolls back.  *)
(* Time is counted in minutes.                                             *)
(***************************************************************************)
EXTENDS Integers, FiniteSets, Sequences, TLC

(* ---------------------------------------------------------------- bounds *)
NumProcs == 2          \* concurrent request handlers
MaxTime  == 10         \* the clock runs 0..MaxTime
ClockStep == 5         \* minutes between two readings of the clock
MaxReqs  == 2          \* issuances (nonces / OTP challenges) per behaviour

(* ------------------------------------------------------ program constants *)
NONCE_TTL_MINUTES  == 5
OTP_EXPIRY_MINUTES == 5
MAX_ATTEMPTS       == 3
TOKEN_TTL_MINUTES  == 1440
JWT_LEEWAY_MINUTES == 1       \* jsonwebtoken::Validation::default(): leeway 60 s
PoolSize           == 2
LargePoolSize      == 5       \* max_connections(5) of the other test setups

Procs == 1..NumProcs

(* ------------------------------------------------------------ input sets *)
Addresses  == {"GA", "GB"}            \* well-formed wallet addresses
BadAddress == "bad"                   \* neither a G-address nor 32 hex bytes
AddrInputs == Addresses \cup {BadAddress}
NonceVals  == 1..MaxReqs              \* Uuid::new_v4() values, in issue order
Keys       == Addresses              \* Ed25519 key pairs, named by their address
NotHex     == [enc |-> "nothex",   key |-> "", msg |-> 0]
WrongLen   == [enc |-> "wronglen", key |-> "", msg |-> 0]
\* Strkey::from_string / hex::decode of the address: the public key, or none
PublicKeyOf(a) == IF a \in Addresses THEN a ELSE "none"
Signed(k, m) == [enc |-> "ok", key |-> k, msg |-> m]
\* what a client can submit once the nonces 1..n-1 have been handed out
\* (their owner signs any of them, another key holder signs the latest)
Signatures(a, n) ==
  {Signed(PublicKeyOf(a), m) : m \in 1..(n - 1)}
    \cup {Signed(k, n - 1) : k \in IF n > 1 THEN Keys ELSE {}}
    \cup {NotHex, WrongLen}

UserIds  == {1, 2}                    \* 1 is a registered user, 2 is unknown
OtpCodes == {"111111", "222222"}      \* 6-digit codes that can be drawn or typed
Impls    == {"two_fa", "service"}     \* two_fa.rs and two_fa/service.rs
Mounts   == {"auth"} \cup Impls        \* auth.rs, or one of the two

VARIABLES
  now,        \* Utc::now(), minutes
  pool,       \* idle connections of the sqlx pool
  mounted,    \* the module serving /user/send-2fa and /user/verify-2fa
  nonces,     \* table nonces: rows [wallet_address, nonce, expires_at]
  nonceLock,  \* row lock of the nonces row of an address: holder or 0
  users,      \* table users: rows [id, email, password_hash, wallet_address]
  user_2fa,   \* table user_2fa: rows [id, user_id, otp_hash, expires_at, attempts]
  otpLock,    \* row lock of the user_2fa row of a user: holder or 0
  nextId,     \* source of fresh Uuid::new_v4() / row ids
  pc,         \* per handler: where it is
  req,        \* per handler: the request payload
  loc,        \* per handler: its local variables
  last,       \* the request answered by the step just taken, and its answer
  hist        \* history of what was issued and consumed (observation only)

dbVars   == <<nonces, nonceLock, users, user_2fa, otpLock, nextId>>
procVars == <<pc, req, loc>>
vars     == <<now, pool, mounted, nonces, nonceLock, users, user_2fa, otpLock, nextId,
              pc, req, loc, last, hist>>

(* --------------------------------------------------------------- answers *)
\* a compact JWT: its claims and the secret its HS256 signature was made with
\* (user_id = 0, admin_id = 0, role = "": the claim is not in the payload)
NoToken == [enc |-> "none", user_id |-> 0, admin_id |-> 0, email |-> <<>>,
            role |-> "", exp |-> 0, key |-> ""]
Answer(s, m) == [status |-> s, msg |-> m, token |-> NoToken]
NoAnswer     == Answer("none", "")
Ok           == Answer("Ok", "")
OkToken(t)   == [Ok EXCEPT !.token = t]
Unauthorized == Answer("Unauthorized", "")
BadRequest(m) == Answer("BadRequest", m)
NotFound(m)  == Answer("NotFound", m)
\* From<sqlx::Error> for ApiError: a storage error is answered 500
Internal     == Answer("Internal", "")

(* ------------------------------------------------------- pure primitives *)
\* hex::decode(&payload.signature) succeeds
SigDecodes(s) == s.enc # "nothex"

\* (variant: the message is not bound into the check)
SigVerifies_AnyMessage(pk, m, s) == s.enc = "ok" /\ s.key = pk

\* ring ED25519 UnparsedPublicKey::verify(message, signature)
SigVerifies(pk, m, s) == s.enc = "ok" /\ s.key = pk /\ s.msg = m

\* format!("{}@inheritx.auth", wallet_address)
Web3Email(a) == <<a, "@inheritx.auth">>

\* jsonwebtoken::encode of UserClaims {user_id, email, exp = now + 24h}
JwtSecret   == "jwt_secret"
OtherSecret == "another_secret"

EncodeUserToken(uid, email, t) ==
  [NoToken EXCEPT !.enc = "jwt", !.user_id = uid, !.email = email,
                  !.exp = t + TOKEN_TTL_MINUTES, !.key = JwtSecret]

(* ------------------------------------------------------------ the tables *)
NonceRowsOf(a) == {r \in nonces : r.wallet_address = a}
\* SELECT id, email FROM users WHERE wallet_address = $1
\* (variant: the lookup finds nothing)
UserRowsOfWallet_None(a) == {}
UserRowsOfWallet(a) == {r \in users : r.wallet_address = a}

\* SELECT EXISTS(SELECT 1 FROM users WHERE id = $1), and the Option of
\* SELECT email FROM users WHERE id = $1
\* (variant: every identity is taken to exist)
UserExists_Any(u) == TRUE
UserExists(u) == \E r \in users : r.id = u

\* (variant: ON CONFLICT DO NOTHING, the old row stays)
UpsertNonce_DoNothing(tbl, a, n, exp) ==
  IF \E r \in tbl : r.wallet_address = a
    THEN tbl
    ELSE tbl \cup {[wallet_address |-> a, nonce |-> n, expires_at |-> exp]}

\* INSERT INTO nonces ... ON CONFLICT (wallet_address) DO UPDATE SET nonce, expires_at
UpsertNonce(tbl, a, n, exp) ==
  {r \in tbl : r.wallet_address # a}
    \cup {[wallet_address |-> a, nonce |-> n, expires_at |-> exp]}

\* DELETE FROM nonces WHERE wallet_address = $1 AND nonce = $2
NonceDeleteMatches(tbl, a, n) ==
  {r \in tbl : r.wallet_address = a /\ r.nonce = n}

\* expires_at < Utc::now()
\* (variant: expiry is not looked at)
IsExpired_Never(exp, t) == FALSE
IsExpired(exp, t) == exp < t

(* -------------------------------------------------------- initial state *)
InitUsers ==
  {[id |-> 1, email |-> <<"u1", "@example.com">>,
    password_hash |-> "bcrypt", wallet_address |-> "none"]}

LocInit == [rows |-> {}, uid |-> 0, email |-> <<>>, act |-> "none", exp |-> 0]
\* the parts of a request that the bearer-token extractors read: the Config
\* extension and the Authorization header
NoConfig == [present |-> FALSE, jwt_secret |-> ""]
Config   == [present |-> TRUE, jwt_secret |-> JwtSecret]
NoHeader == [present |-> FALSE, scheme |-> "", token |-> NoToken]
Header(scheme, token) == [present |-> TRUE, scheme |-> scheme, token |-> token]
NoParts  == [config |-> NoConfig, authorization |-> NoHeader]

ReqInit == [op |-> "none", addr |-> "", sig |-> NotHex, user |-> 0, otp |-> "",
            parts |-> NoParts]

HistInit == [superseded |-> {},       \* nonces replaced by a later get_nonce
             tokensFor  |-> [n \in NonceVals |-> 0],  \* tokens returned per nonce
             otpWon     |-> {},       \* challenges (salts) verified with success that
                                  \* a request in flight still holds
             beaten     |-> {},       \* verifiers in flight when their challenge was won
             otpUsed    |-> {},       \* [user, otp] verified by verify_2fa_internal,
                                  \* no send_2fa for the user since
             otpReplaced |-> {},      \* [user, otp] of the challenge that the
                                  \* user's current one replaced
             issued     |-> {},       \* tokens that login_user has returned
             generated  |-> [by |-> "none", otp |-> <<>>]]  \* the code drawn last

\* a line written by tracing::info!(fmt, arg)
TracingInfo(fmt, arg) == [fmt |-> fmt, arg |-> arg]

\* the lines carrying the code that the issuance path writes once the challenge
\* is stored: send_2fa of auth.rs, EmailService::send_otp of email.rs,
\* EmailService::send_email of email_service.rs with the body that
\* send_otp_email formats
OtpBody(otp) == <<"Your InheritX verification code is: ", otp>>
IssuanceLog(module, otp) ==
  IF module = "auth" THEN {TracingInfo("OTP Code: {}", <<otp>>)}
  ELSE IF module = "two_fa"
    THEN {TracingInfo("Sending OTP to {}: {} (expires in 5 minutes)", <<otp>>)}
    ELSE {TracingInfo("   Body: {}", OtpBody(otp))}

\* no request was answered by the step just taken
NoLast == [req |-> ReqInit, res |-> NoAnswer, log |-> {}]

InitNoPool ==
  /\ now = 0
  /\ nonces = {}
  /\ nonceLock = [a \in Addresses |-> 0]
  /\ otpLock = [u \in UserIds |-> 0]
  /\ nextId = 1
  /\ pc = [p \in Procs |-> "idle"]
  /\ req = [p \in Procs |-> ReqInit]
  /\ loc = [p \in Procs |-> LocInit]
  /\ last = NoLast

InitIdle == InitNoPool /\ pool = PoolSize

InitCore == InitIdle /\ hist = HistInit

InitBut == InitCore /\ users = InitUsers /\ user_2fa = {}

Init == InitBut /\ mounted = "auth"

\* the same routes served by two_fa.rs, by two_fa/service.rs, by any of the three
InitDb      == InitBut /\ mounted = "two_fa"
InitService == InitBut /\ mounted = "service"
InitAny     == InitBut /\ mounted \in Mounts

(* ------------------------------------------------------------- the clock *)
Tick ==
  /\ now + ClockStep <= MaxTime
  /\ now' = now + ClockStep
  /\ last' = NoLast
  /\ UNCHANGED <<mounted, pool, dbVars, procVars, hist>>

\* a request is served by a free worker; the workers are interchangeable, the
\* first free one takes it
FreeWorker(p) ==
  /\ pc[p] = "idle"
  /\ \A q \in Procs : q < p => pc[q] # "idle"

\* the handler returns `answer`; the worker is free for the next request
Return(p, answer) ==
  /\ pc' = [pc EXCEPT ![p] = "idle"]
  /\ req' = [req EXCEPT ![p] = ReqInit]
  /\ loc' = [loc EXCEPT ![p] = LocInit]
  /\ last' = [req |-> req[p], res |-> answer, log |-> {}]

\* the same, after the handler has written `lines` to the log
ReturnLogged(p, answer, lines) ==
  /\ pc' = [pc EXCEPT ![p] = "idle"]
  /\ req' = [req EXCEPT ![p] = ReqInit]
  /\ loc' = [loc EXCEPT ![p] = LocInit]
  /\ last' = [req |-> req[p], res |-> answer, log |-> lines]

\* the handler moves on to `label` with the local variables `l`
Goto(p, label, l) ==
  /\ pc' = [pc EXCEPT ![p] = label]
  /\ loc' = [loc EXCEPT ![p] = l]
  /\ last' = NoLast
  /\ UNCHANGED req

(* ============================================================ get_nonce *)
\* One autocommit statement.  The UPDATE arm of the upsert waits for the
\* row lock while a login transaction holds the address's row.
get_nonce(a) ==
  /\ nextId <= MaxReqs
  /\ pool > 0
  /\ nonceLock[a] = 0
  /\ nonces' = UpsertNonce(nonces, a, nextId, now + NONCE_TTL_MINUTES)
  /\ nextId' = nextId + 1
  /\ hist' = [hist EXCEPT !.superseded =
                 @ \cup {r.nonce : r \in NonceRowsOf(a)}]
  /\ last' = NoLast
  /\ UNCHANGED <<now, mounted, pool, nonceLock, users, user_2fa, otpLock, procVars>>

(* =========================================================== web3_login *)
TooManyVerify == "Too many verification attempts. Please request a new OTP."

\* dropping `tx` without commit: ROLLBACK, the lock and the connection go back
LoginAbort(p, answer) ==
  /\ Return(p, answer)
  /\ nonceLock' = [a \in Addresses |-> IF nonceLock[a] = p THEN 0 ELSE nonceLock[a]]
  /\ pool' = pool + 1

\* the request arrives: state.db.begin(), then step 1: decode the address
\* into a public key
web3_login_begin(p, a, s) ==
  /\ FreeWorker(p)
  /\ pool > 0
  /\ IF PublicKeyOf(a) = "none"
       THEN /\ pc' = pc /\ req' = req /\ loc' = loc
            /\ last' = [req |-> [ReqInit EXCEPT !.op = "web3_login", !.addr = a, !.sig = s],
                        res |-> BadRequest("Invalid wallet address format"), log |-> {}]
            /\ UNCHANGED pool
       ELSE /\ pc' = [pc EXCEPT ![p] = "wl_select"]
            /\ req' = [req EXCEPT ![p] =
                         [ReqInit EXCEPT !.op = "web3_login", !.addr = a, !.sig = s]]
            /\ last' = NoLast
            /\ pool' = pool - 1
            /\ UNCHANGED loc
  /\ UNCHANGED <<now, mounted, dbVars, hist>>

\* nonce_val of the row the handler fetched
NonceVal(p) == (CHOOSE r \in loc[p].rows : TRUE).nonce

\* SELECT ... FOR UPDATE takes the row lock (waits while another holds it)
\* (variant: a plain SELECT, which waits for nothing)
SelectNonceForUpdate_NoLock(p, a) == TRUE
SelectNonceForUpdate(p, a) == nonceLock[a] = 0

\* the error of each authentication failure of steps 2 and 3: no row
\* (row.ok_or_else), expires_at < now, verify() failed
\* (variant: a missing row is reported as such)
LoginFailure_Telling(reason) ==
  IF reason = "no_nonce" THEN NotFound("No nonce for this address") ELSE Unauthorized
LoginFailure(reason) == Unauthorized

\* an early return of steps 2 and 3 drops tx: the handler has written nothing
\* to nonces, the table is as it was
\* (variant: a failed login uses the nonce up)
NoncesAfterFailure_Consumed(tbl, a) == {r \in tbl : r.wallet_address # a}
NoncesAfterFailure(tbl, a) == tbl

\* step 2: SELECT nonce, expires_at ... FOR UPDATE; expiry; step 3: signature
web3_login_select(p) ==
  LET a    == req[p].addr
      rows == NonceRowsOf(a)
  IN
  /\ pc[p] = "wl_select"
  /\ SelectNonceForUpdate(p, a)
  /\ IF rows = {}
       THEN LoginAbort(p, LoginFailure("no_nonce"))
       ELSE LET row == CHOOSE r \in rows : TRUE IN
            IF IsExpired(row.expires_at, now)
              THEN LoginAbort(p, LoginFailure("expired"))
            ELSE IF ~SigDecodes(req[p].sig)
              THEN LoginAbort(p, BadRequest("Invalid signature format"))
            ELSE IF ~SigVerifies(PublicKeyOf(a), row.nonce, req[p].sig)
              THEN LoginAbort(p, LoginFailure("mismatch"))
            ELSE /\ nonceLock' = [nonceLock EXCEPT ![a] = p]
                 /\ Goto(p, "wl_user", [loc[p] EXCEPT !.rows = {row}])
                 /\ UNCHANGED pool
  /\ nonces' = IF pc'[p] = "idle" THEN NoncesAfterFailure(nonces, a) ELSE nonces
  /\ UNCHANGED <<now, mounted, users, user_2fa, otpLock, nextId, hist>>

\* step 4a: SELECT id, email FROM users WHERE wallet_address = $1, on a
\* second pool connection (&state.db), outside the transaction
web3_login_find_user(p) ==
  LET a    == req[p].addr
      rows == UserRowsOfWallet(a)
  IN
  /\ pc[p] = "wl_user"
  /\ pool > 0
  /\ IF rows # {}
       THEN LET row == CHOOSE r \in rows : TRUE IN
            Goto(p, "wl_consume", [loc[p] EXCEPT !.uid = row.id, !.email = row.email])
       ELSE Goto(p, "wl_insert", loc[p])
  /\ UNCHANGED <<now, mounted, pool, dbVars, hist>>

\* step 4b: INSERT INTO users ..., again on a pool connection
web3_login_insert_user(p) ==
  LET a  == req[p].addr
      id == 100 + Cardinality(users)
  IN
  /\ pc[p] = "wl_insert"
  /\ pool > 0
  /\ users' = users \cup {[id |-> id, email |-> Web3Email(a),
                           password_hash |-> "web3-auth-none", wallet_address |-> a]}
  /\ Goto(p, "wl_consume", [loc[p] EXCEPT !.uid = id, !.email = Web3Email(a)])
  /\ UNCHANGED <<now, mounted, pool, nonces, nonceLock, user_2fa, otpLock, nextId, hist>>

\* the nonces table once the transaction's DELETE is committed
NoncesAfterCommit_Keep(tbl, a, n) == tbl
NoncesAfterCommit(tbl, a, n) == tbl \ NonceDeleteMatches(tbl, a, n)

\* step 5: the JWT; step 6: DELETE FROM nonces WHERE wallet_address AND nonce
\* in the transaction, rows_affected() != 1 is answered Unauthorized;
\* tx.commit() makes the delete visible and releases the lock; Ok(token).
\* (The row is locked from the DELETE to the COMMIT, so no other statement
\* can fall between the two.)
web3_login_consume(p) ==
  LET a   == req[p].addr
      hit == NonceDeleteMatches(nonces, a, NonceVal(p))
      token == EncodeUserToken(loc[p].uid, loc[p].email, now)
  IN
  /\ pc[p] = "wl_consume"
  /\ nonceLock[a] \in {0, p}
  /\ IF Cardinality(hit) # 1
       THEN LoginAbort(p, Unauthorized) /\ UNCHANGED <<nonces, hist>>
       ELSE /\ nonces' = NoncesAfterCommit(nonces, a, NonceVal(p))
            /\ nonceLock' = [nonceLock EXCEPT ![a] = 0]
            /\ pool' = pool + 1
            /\ Return(p, OkToken(token))
            /\ hist' = [hist EXCEPT !.tokensFor[NonceVal(p)] = @ + 1]
  /\ UNCHANGED <<now, mounted, users, user_2fa, otpLock, nextId>>

\* a handler that holds a connection and cannot move
HoldsConn(q) == pc[q] \in {"wl_select", "wl_user", "wl_insert", "wl_consume"}
Stuck(q) ==
  \/ pc[q] = "wl_select" /\ nonceLock[req[q].addr] # 0
  \/ pc[q] \in {"wl_user", "wl_insert"} /\ pool = 0

\* The pool's acquire timeout: every connection is held by a handler that
\* waits (for the row lock, or itself for a second connection), so the
\* acquire of &state.db fails, `?` returns the storage error and drops tx.
web3_login_acquire_timeout(p) ==
  /\ pc[p] \in {"wl_user", "wl_insert"}
  /\ pool = 0
  /\ \A q \in Procs : HoldsConn(q) => Stuck(q)
  /\ LoginAbort(p, Internal)
  /\ UNCHANGED <<now, mounted, nonces, users, user_2fa, otpLock, nextId, hist>>

NextWallet ==
  \/ Tick
  \/ \E a \in Addresses : get_nonce(a)
  \/ \E p \in Procs, a \in AddrInputs :
       \E s \in Signatures(a, nextId) : web3_login_begin(p, a, s)
  \/ \E p \in Procs : web3_login_select(p)
  \/ \E p \in Procs : web3_login_find_user(p)
  \/ \E p \in Procs : web3_login_insert_user(p)
  \/ \E p \in Procs : web3_login_consume(p)
  \/ \E p \in Procs : web3_login_acquire_timeout(p)

SpecWallet == Init /\ [][NextWallet]_vars

\* the logins of one wallet, GA, with every signature a client can submit
NextLogin ==
  \/ Tick
  \/ get_nonce("GA")
  \/ \E p \in Procs :
       \E s \in Signatures("GA", nextId) : web3_login_begin(p, "GA", s)
  \/ \E p \in Procs : web3_login_select(p)
  \/ \E p \in Procs : web3_login_find_user(p)
  \/ \E p \in Procs : web3_login_insert_user(p)
  \/ \E p \in Procs : web3_login_consume(p)
  \/ \E p \in Procs : web3_login_acquire_timeout(p)

\* the pool is sized by whoever builds it: 2 or 5 connections
InitLogin ==
  /\ InitNoPool
  /\ pool \in {PoolSize, LargePoolSize}
  /\ hist = HistInit
  /\ users = InitUsers
  /\ user_2fa = {}
  /\ mounted = "auth"

SpecLogin == InitLogin /\ [][NextLogin]_vars


(***************************************************************************)
(* The user_2fa table                                                      *)
(***************************************************************************)
\* bcrypt::hash(otp, DEFAULT_COST): a fresh random salt each call
BcryptHash(otp, salt) == [salt |-> salt, code |-> otp]

\* bcrypt::verify(otp, hash)
BcryptVerify(otp, h) == h.code = otp

\* ... FROM user_2fa WHERE user_id = $1
\* (variant: without the WHERE clause)
OtpRowsOf_Any(u) == user_2fa
OtpRowsOf(u) == {r \in user_2fa : r.user_id = u}

OtpRow(id, u, h, exp, n) ==
  [id |-> id, user_id |-> u, otp_hash |-> h, expires_at |-> exp, attempts |-> n]

\* the conflict target of the upsert: a row with this user_id is there
\* (variant: the insert never sees a conflict)
ConflictOnUserId_Never(tbl, u) == FALSE
ConflictOnUserId(tbl, u) == \E r \in tbl : r.user_id = u

\* ON CONFLICT (user_id) DO UPDATE SET ... attempts = 0
\* (variant: the SET list leaves attempts out)
AttemptsOnConflict_Kept(r) == r.attempts
AttemptsOnConflict(r) == 0

\* INSERT INTO user_2fa ... VALUES ($1, $2, $3, 0) ON CONFLICT (user_id) DO UPDATE
\* SET otp_hash, expires_at, attempts = 0: the row keeps its id on conflict
\* (variant: ON CONFLICT (user_id) DO NOTHING)
UpsertOtp_DoNothing(tbl, id, u, h, exp) ==
  IF \E r \in tbl : r.user_id = u THEN tbl
                                   ELSE tbl \cup {OtpRow(id, u, h, exp, 0)}
UpsertOtp(tbl, id, u, h, exp) ==
  IF ConflictOnUserId(tbl, u)
    THEN {IF r.user_id = u THEN OtpRow(r.id, u, h, exp, AttemptsOnConflict(r))
                           ELSE r : r \in tbl}
    ELSE tbl \cup {OtpRow(id, u, h, exp, 0)}

\* UPDATE user_2fa SET attempts = attempts + 1 WHERE user_id = $1
\* (variant: without the WHERE clause)
IncrAttemptsOfUser_All(tbl, u) == {[r EXCEPT !.attempts = @ + 1] : r \in tbl}
IncrAttemptsOfUser(tbl, u) ==
  {IF r.user_id = u THEN [r EXCEPT !.attempts = @ + 1] ELSE r : r \in tbl}

\* DELETE FROM user_2fa WHERE user_id = $1
\* (variant: the row is left in place)
DeleteOtpOfUser_Keep(tbl, u) == tbl
DeleteOtpOfUser(tbl, u) == {r \in tbl : r.user_id # u}

\* UPDATE user_2fa SET attempts = attempts + 1 WHERE id = $1
IncrAttemptsOfId(tbl, id) ==
  {IF r.id = id THEN [r EXCEPT !.attempts = @ + 1] ELSE r : r \in tbl}

\* DELETE FROM user_2fa WHERE id = $1
DeleteOtpOfId(tbl, id) == {r \in tbl : r.id # id}

\* requests in flight that will still draw a fresh id
Issuing == {q \in Procs : pc[q] \in {"s2_upsert", "st_insert"}}

(* ============================================================== send_2fa *)
\* the request arrives; 1. SELECT EXISTS(SELECT 1 FROM users WHERE id = $1)
send_2fa_begin(p, u) ==
  /\ mounted = "auth"
  /\ FreeWorker(p)
  /\ pool > 0
  /\ nextId + Cardinality(Issuing) <= MaxReqs
  /\ IF ~UserExists(u)
       THEN /\ pc' = pc /\ req' = req /\ loc' = loc
            /\ last' = [req |-> [ReqInit EXCEPT !.op = "send_2fa", !.user = u],
                        res |-> NotFound("User not found"), log |-> {}]
       ELSE /\ pc' = [pc EXCEPT ![p] = "s2_upsert"]
            /\ req' = [req EXCEPT ![p] = [ReqInit EXCEPT !.op = "send_2fa", !.user = u]]
            /\ last' = NoLast
            /\ UNCHANGED loc
  /\ UNCHANGED <<now, mounted, pool, dbVars, hist>>

\* 2. a 6-digit OTP; 3. its bcrypt hash; 4. the upsert (its UPDATE arm waits
\* for the row lock); 5. the log lines and the audit log; Ok
send_2fa_upsert(p, otp) ==
  LET u == req[p].user IN
  /\ pc[p] = "s2_upsert"
  /\ pool > 0
  /\ otpLock[u] = 0
  /\ user_2fa' = UpsertOtp(user_2fa, nextId, u, BcryptHash(otp, nextId),
                           now + OTP_EXPIRY_MINUTES)
  /\ nextId' = nextId + 1
  /\ ReturnLogged(p, Answer("Ok", "OTP sent successfully"),
                  IssuanceLog("auth", otp))
  /\ hist' = [hist EXCEPT !.beaten = {q \in @ : req[q].user # u},
                           !.otpUsed = {x \in @ : x.user # u},
                           !.otpReplaced = {x \in @ : x.user # u} \cup
                              {[user |-> u, otp |-> r.otp_hash.code] : r \in OtpRowsOf(u)}]
  /\ UNCHANGED <<now, mounted, pool, nonces, nonceLock, users, otpLock>>

(* =================================================== verify_2fa_internal *)
\* dropping `tx` without commit: ROLLBACK, the lock and the connection go back
VerifyAbort(p, answer) ==
  /\ Return(p, answer)
  /\ hist' = [hist EXCEPT !.beaten = @ \ {p}]
  /\ otpLock' = [u \in UserIds |-> IF otpLock[u] = p THEN 0 ELSE otpLock[u]]
  /\ pool' = pool + 1

\* the request arrives: db.begin()
verify_2fa_begin(p, u, otp) ==
  /\ mounted = "auth"
  /\ FreeWorker(p)
  /\ pool > 0
  /\ pool' = pool - 1
  /\ pc' = [pc EXCEPT ![p] = "v2_select"]
  /\ req' = [req EXCEPT ![p] =
               [ReqInit EXCEPT !.op = "verify_2fa", !.user = u, !.otp = otp]]
  /\ last' = NoLast
  /\ UNCHANGED <<now, mounted, dbVars, loc, hist>>

\* SELECT ... FOR UPDATE takes the row lock (waits while another holds it)
\* (variant: a plain SELECT, which waits for nothing)
SelectOtpForUpdate_NoLock(p, u) == TRUE
SelectOtpForUpdate(p, u) == otpLock[u] = 0

\* attempts >= 3
\* (variant: attempts > 3)
AttemptsExhausted_Off(n) == n > MAX_ATTEMPTS
AttemptsExhausted(n) == n >= MAX_ATTEMPTS

\* the check that stops the call before the comparison: 2. attempts, then
\* 3. expiry
\* (variant: expiry is looked at first)
RejectedBy_ExpiryFirst(row, t) == IF IsExpired(row.expires_at, t) THEN "expired" ELSE IF AttemptsExhausted(row.attempts) THEN "max" ELSE "none"
RejectedBy(row, t) ==
  IF AttemptsExhausted(row.attempts) THEN "max"
  ELSE IF IsExpired(row.expires_at, t) THEN "expired"
  ELSE "none"

\* 1. SELECT otp_hash, expires_at, attempts ... FOR UPDATE; 2. attempts;
\* 3. expiry; 4. bcrypt::verify
verify_2fa_select(p) ==
  LET u    == req[p].user
      rows == OtpRowsOf(u)
  IN
  /\ pc[p] = "v2_select"
  /\ SelectOtpForUpdate(p, u)
  /\ IF rows = {}
       THEN VerifyAbort(p, BadRequest("No pending OTP found"))
       ELSE LET row == CHOOSE r \in rows : TRUE IN
            IF RejectedBy(row, now) = "max"
              THEN VerifyAbort(p, BadRequest(TooManyVerify))
            ELSE IF RejectedBy(row, now) = "expired"
              THEN VerifyAbort(p, BadRequest("OTP has expired"))
            ELSE /\ otpLock' = [otpLock EXCEPT ![u] = p]
                 /\ Goto(p, "v2_write",
                         [loc[p] EXCEPT !.rows = {row},
                            !.act = IF BcryptVerify(req[p].otp, row.otp_hash)
                                      THEN "ok" ELSE "wrong"])
                 /\ UNCHANGED <<pool, hist>>
  /\ UNCHANGED <<now, mounted, nonces, nonceLock, users, user_2fa, nextId>>

\* the record this request read
ReadRow(p) == CHOOSE r \in loc[p].rows : TRUE

\* the challenges still stored in tbl or held by a verification in flight
\* other than p
StillHeld(p, tbl) ==
  {r.otp_hash.salt : r \in tbl} \cup
  {ReadRow(q).otp_hash.salt :
     q \in {x \in Procs \ {p} : pc[x] \in {"v2_write", "v2_commit", "db_write"}}}

\* the other verify_2fa_internal calls queued on the row lock with the code of h
Waiting(p, u, h) ==
  {q \in Procs \ {p} : /\ pc[q] = "v2_select" /\ req[q].user = u
                        /\ BcryptVerify(req[q].otp, h)}

\* wrong code: UPDATE attempts = attempts + 1; commit; Unauthorized.
\* right code: 5. DELETE FROM user_2fa WHERE user_id; commit; Ok.
\* (The row is locked until the COMMIT, which makes the write visible.)
WriteAndCommit(p) ==
  LET u == req[p].user IN
  /\ IF loc[p].act = "wrong"
       THEN /\ user_2fa' = IncrAttemptsOfUser(user_2fa, u)
            /\ Return(p, Unauthorized)
            /\ hist' = [hist EXCEPT !.otpWon = @ \cap StillHeld(p, user_2fa'),
                                     !.beaten = @ \ {p}]
       ELSE /\ user_2fa' = DeleteOtpOfUser(user_2fa, u)
            /\ Return(p, Answer("Ok", "OTP verified successfully"))
            /\ hist' = [hist EXCEPT
                 !.otpWon = (@ \cup {ReadRow(p).otp_hash.salt})
                              \cap StillHeld(p, user_2fa'),
                 !.beaten = (@ \ {p}) \cup Waiting(p, u, ReadRow(p).otp_hash),
                 !.otpUsed = @ \cup {[user |-> u, otp |-> req[p].otp]},
                 !.otpReplaced = {x \in @ : x.user # u}]
  /\ otpLock' = [otpLock EXCEPT ![u] = 0]
  /\ pool' = pool + 1
  /\ UNCHANGED <<now, mounted, nonces, nonceLock, users, nextId>>

verify_2fa_write(p) == pc[p] = "v2_write" /\ WriteAndCommit(p)

NextOtp ==
  \/ Tick
  \/ \E p \in Procs, u \in UserIds : send_2fa_begin(p, u)
  \/ \E p \in Procs, otp \in OtpCodes : send_2fa_upsert(p, otp)
  \/ \E p \in Procs, u \in UserIds, otp \in OtpCodes : verify_2fa_begin(p, u, otp)
  \/ \E p \in Procs : verify_2fa_select(p)
  \/ \E p \in Procs : verify_2fa_write(p)

SpecOtp == Init /\ [][NextOtp]_vars

\* a challenge of user 1 that is used up: issued at minute 0, three wrong codes
ExhaustedRow ==
  OtpRow(-1, 1, BcryptHash("111111", -1), OTP_EXPIRY_MINUTES, MAX_ATTEMPTS)
\* a challenge of user 1 that ran out a minute ago, after one wrong code
ExpiredRow == OtpRow(-2, 1, BcryptHash("111111", -2), -1, 1)

\* the handlers start with no challenge for user 1, a used-up one or an
\* expired one
InitRevive ==
  /\ InitCore
  /\ mounted = "auth"
  /\ users = InitUsers
  /\ user_2fa \in {{}, {ExhaustedRow}, {ExpiredRow}}

SpecOtpRevive == InitRevive /\ [][NextOtp]_vars

\* The same call, one suspension point at a time.  The UPDATE or DELETE runs
\* on the transaction: what the table holds for the others, and after a
\* rollback, is the table without the statement's effect
\* (variant: the statement runs on the pool and is committed at once)
InTransaction_Autocommit(tbl, written) == written
InTransaction(tbl, written) == tbl

verify_2fa_statement(p) ==
  LET u == req[p].user
      written == IF loc[p].act = "wrong" THEN IncrAttemptsOfUser(user_2fa, u)
                                         ELSE DeleteOtpOfUser(user_2fa, u)
  IN
  /\ pc[p] = "v2_write"
  /\ user_2fa' = InTransaction(user_2fa, written)
  /\ Goto(p, "v2_commit", loc[p])
  /\ UNCHANGED <<now, mounted, pool, nonces, nonceLock, users, otpLock, nextId, hist>>

\* tx.commit()
verify_2fa_commit(p) == pc[p] = "v2_commit" /\ WriteAndCommit(p)

\* the call ends at an .await before its commit: the future is dropped
\* (client gone, timeout) or `?` returns a storage error; tx is dropped
Cancelled(at) == Answer("Cancelled", at)
verify_2fa_cancel(p, error) ==
  /\ pc[p] \in {"v2_select", "v2_write", "v2_commit"}
  /\ VerifyAbort(p, IF error THEN Internal ELSE Cancelled(pc[p]))
  /\ UNCHANGED <<now, mounted, nonces, nonceLock, users, user_2fa, nextId>>

NextOtpCancel ==
  \/ Tick
  \/ \E p \in Procs, u \in UserIds : send_2fa_begin(p, u)
  \/ \E p \in Procs, otp \in OtpCodes : send_2fa_upsert(p, otp)
  \/ \E p \in Procs, u \in UserIds, otp \in OtpCodes : verify_2fa_begin(p, u, otp)
  \/ \E p \in Procs : verify_2fa_select(p)
  \/ \E p \in Procs : verify_2fa_statement(p)
  \/ \E p \in Procs : verify_2fa_commit(p)
  \/ \E p \in Procs, error \in BOOLEAN : verify_2fa_cancel(p, error)

SpecOtpCancel == Init /\ [][NextOtpCancel]_vars

\* web3_login ends at an .await: the future is dropped (client gone, timeout),
\* or `?` returns an error (encode, the DELETE, tx.commit()).  tx is dropped
\* and rolls back; what was executed on &state.db was committed on its own.
web3_login_cancel(p, error) ==
  /\ pc[p] \in {"wl_select", "wl_user", "wl_insert", "wl_consume"}
  /\ LoginAbort(p, IF error THEN Internal ELSE Cancelled(pc[p]))
  /\ UNCHANGED <<now, mounted, nonces, users, user_2fa, otpLock, nextId, hist>>

NextLoginCancel ==
  \/ NextLogin
  \/ \E p \in Procs, error \in BOOLEAN : web3_login_cancel(p, error)

SpecLoginCancel == InitLogin /\ [][NextLoginCancel]_vars

\* a third registered user who requested an OTP earlier, made one wrong guess
\* and sends nothing more: its row is there while the others' requests run
BystanderUser ==
  [id |-> 3, email |-> <<"u3", "@example.com">>,
   password_hash |-> "bcrypt", wallet_address |-> "none"]
BystanderRow ==
  OtpRow(0, BystanderUser.id, BcryptHash("111111", 0), OTP_EXPIRY_MINUTES, 1)

InitFrame ==
  /\ InitCore
  /\ mounted = "auth"
  /\ users = InitUsers \cup {BystanderUser}
  /\ user_2fa = {BystanderRow}

SpecOtpFrame == InitFrame /\ [][NextOtp]_vars

\* auth.rs as a whole: the wallet login and the OTP handlers side by side, for
\* one address and one identity (owner's signatures over the stored number or a
\* non-hex string; one code issued, either code submitted)
NextAuth ==
  \/ Tick
  \/ get_nonce("GA")
  \/ \E p \in Procs :
       \E s \in {Signed("GA", r.nonce) : r \in nonces} \cup {NotHex} :
         web3_login_begin(p, "GA", s)
  \/ \E p \in Procs : web3_login_select(p)
  \/ \E p \in Procs : web3_login_find_user(p)
  \/ \E p \in Procs : web3_login_insert_user(p)
  \/ \E p \in Procs : web3_login_consume(p)
  \/ \E p \in Procs : web3_login_acquire_timeout(p)
  \/ \E p \in Procs : send_2fa_begin(p, 1)
  \/ \E p \in Procs : send_2fa_upsert(p, "111111")
  \/ \E p \in Procs, otp \in OtpCodes : verify_2fa_begin(p, 1, otp)
  \/ \E p \in Procs : verify_2fa_select(p)
  \/ \E p \in Procs : verify_2fa_write(p)

SpecAuth == Init /\ [][NextAuth]_vars

(* ============================== handlers/two_fa.rs send_2fa and store_otp *)
\* the request arrives; SELECT email FROM users WHERE id = $1; generate_otp();
\* store_otp: DELETE FROM user_2fa WHERE user_id = $1 (service.rs reads the
\* clock before it, two_fa.rs after it)
store_otp_delete(p, u) ==
  LET r == [ReqInit EXCEPT !.op = "store_otp", !.user = u] IN
  /\ mounted \in Impls
  /\ FreeWorker(p)
  /\ pool > 0
  /\ nextId + Cardinality(Issuing) <= MaxReqs
  /\ IF ~UserExists(u)
       THEN /\ pc' = pc /\ req' = req /\ loc' = loc
            /\ last' = [req |-> r, res |-> NotFound("User not found"), log |-> {}]
            /\ UNCHANGED user_2fa
       ELSE /\ otpLock[u] = 0
            /\ user_2fa' = DeleteOtpOfUser(user_2fa, u)
            /\ pc' = [pc EXCEPT ![p] = "st_insert"]
            /\ req' = [req EXCEPT ![p] = r]
            /\ loc' = [loc EXCEPT ![p] = [LocInit EXCEPT
                   !.exp = IF mounted = "service" THEN now + OTP_EXPIRY_MINUTES
                                                  ELSE 0,
                   !.act = IF OtpRowsOf(u) # {} THEN "replace" ELSE "none"]]
            /\ last' = NoLast
  /\ UNCHANGED <<now, mounted, pool, nonces, nonceLock, users, otpLock, nextId, hist>>

\* INSERT INTO user_2fa ... VALUES ($1, $2, $3, 0): user_id is unique, a second
\* row for the user is a constraint violation; then the e-mail; Ok
store_otp_insert(p, otp) ==
  LET u   == req[p].user
      exp == IF mounted = "service" THEN loc[p].exp
                                    ELSE now + OTP_EXPIRY_MINUTES
  IN
  /\ pc[p] = "st_insert"
  /\ pool > 0
  /\ IF OtpRowsOf(u) # {}
       THEN /\ Return(p, Internal)
            /\ UNCHANGED <<user_2fa, nextId>>
       ELSE /\ user_2fa' = user_2fa \cup
                             {OtpRow(nextId, u, BcryptHash(otp, nextId), exp, 0)}
            /\ nextId' = nextId + 1
            /\ ReturnLogged(p, Answer("Ok", "OTP sent successfully to your email"),
                            IssuanceLog(mounted, otp))
  /\ UNCHANGED <<now, mounted, pool, nonces, nonceLock, users, otpLock, hist>>

(* ==================================================== verify_otp_from_db *)
NoOtpMsg(impl) ==
  IF impl = "service" THEN "No OTP found for this user" ELSE "No OTP found for user"

TooManyMsg(impl) ==
  IF impl = "service" THEN "Maximum verification attempts exceeded"
                      ELSE "Too many attempts. Please request a new OTP"

\* Ok(false) in two_fa.rs, Err(BadRequest("Invalid OTP")) in service.rs
InvalidAnswer(impl) ==
  IF impl = "service" THEN BadRequest("Invalid OTP") ELSE Answer("Ok", "false")

\* what the function decides from the record it fetched: expiry first, then
\* the attempts, then the comparison
Decide(record, otp, t) ==
  IF IsExpired(record.expires_at, t) THEN "expired"
  ELSE IF record.attempts >= MAX_ATTEMPTS THEN "max"
  ELSE IF BcryptVerify(otp, record.otp_hash) THEN "ok"
  ELSE "wrong"

\* the fields of the fetched record that the function still uses after the checks
Kept(record) == [id |-> record.id, otp_hash |-> record.otp_hash]

\* the call; SELECT ... FROM user_2fa WHERE user_id = $1 (no lock, no
\* transaction) and the checks on the fetched record, for the request `asked`;
\* `kept` is what the worker holds of it while the call is under way
VerifyOtpFetch(p, asked, kept) ==
  LET rows == OtpRowsOf(asked.user)
      impl == mounted
  IN
  /\ mounted \in Impls
  /\ FreeWorker(p)
  /\ pool > 0
  /\ IF rows = {}
       THEN /\ pc' = pc /\ req' = req /\ loc' = loc
            /\ last' = [req |-> asked, res |-> BadRequest(NoOtpMsg(impl)), log |-> {}]
       ELSE LET record == CHOOSE x \in rows : TRUE IN
            /\ pc' = [pc EXCEPT ![p] = "db_write"]
            /\ req' = [req EXCEPT ![p] = kept]
            /\ loc' = [loc EXCEPT ![p] = [LocInit EXCEPT !.rows = {Kept(record)},
                                            !.act = Decide(record, asked.otp, now)]]
            /\ last' = NoLast
  /\ UNCHANGED <<now, mounted, pool, dbVars, hist>>

\* verify_otp_from_db called by itself; `otp` is not read again after the
\* comparison, whose outcome is kept in `act`
verify_otp_select(p, u, otp) ==
  LET r == [ReqInit EXCEPT !.op = "verify_otp_from_db", !.user = u, !.otp = otp] IN
  VerifyOtpFetch(p, r, [r EXCEPT !.otp = ""])

\* what the caller makes of the function's result: the verify_2fa handler of
\* handlers/two_fa.rs turns Ok(true) into its success body and Ok(false) into
\* BadRequest("Invalid OTP"), errors pass through `?`
Through(op, result) ==
  IF op # "handlers::verify_2fa" THEN result
  ELSE IF result = Answer("Ok", "true") THEN Answer("Ok", "OTP verified successfully")
  ELSE IF result = Answer("Ok", "false") THEN BadRequest("Invalid OTP")
  ELSE result

\* the statement that follows the decision, DELETE or UPDATE ... WHERE id = $1,
\* and the result
verify_otp_write(p) ==
  LET record == ReadRow(p)
      impl   == mounted
      act    == loc[p].act
  IN
  /\ pc[p] = "db_write"
  /\ pool > 0
  /\ otpLock[req[p].user] = 0
  /\ user_2fa' = IF act = "wrong" THEN IncrAttemptsOfId(user_2fa, record.id)
                                  ELSE DeleteOtpOfId(user_2fa, record.id)
  /\ hist' = [hist EXCEPT !.otpWon =
                 (IF act = "ok" THEN @ \cup {record.otp_hash.salt} ELSE @)
                   \cap StillHeld(p, user_2fa')]
  /\ Return(p, Through(req[p].op,
               CASE act = "expired" -> BadRequest("OTP has expired")
                 [] act = "max"     -> BadRequest(TooManyMsg(impl))
                 [] act = "ok"      -> Answer("Ok", "true")
                 [] OTHER           -> InvalidAnswer(impl)))
  /\ UNCHANGED <<now, mounted, pool, nonces, nonceLock, users, otpLock, nextId>>

NextOtpDb ==
  \/ Tick
  \/ \E p \in Procs, u \in UserIds : store_otp_delete(p, u)
  \/ \E p \in Procs, otp \in OtpCodes : store_otp_insert(p, otp)
  \/ \E p \in Procs, u \in UserIds, otp \in OtpCodes : verify_otp_select(p, u, otp)
  \/ \E p \in Procs : verify_otp_write(p)

\* handlers/two_fa.rs with two_fa.rs
SpecOtpDb == InitDb /\ [][NextOtpDb]_vars

\* two_fa/handlers.rs with two_fa/service.rs
SpecOtpService == InitService /\ [][NextOtpDb]_vars

\* whichever module is mounted
NextOtpAny == NextOtp \/ NextOtpDb

SpecOtpAny == InitAny /\ [][NextOtpAny]_vars

\* the same handlers serving the registered identity alone
NextOtpKnown ==
  \/ Tick
  \/ \E p \in Procs : send_2fa_begin(p, 1)
  \/ \E p \in Procs, otp \in OtpCodes : send_2fa_upsert(p, otp)
  \/ \E p \in Procs, otp \in OtpCodes : verify_2fa_begin(p, 1, otp)
  \/ \E p \in Procs : verify_2fa_select(p)
  \/ \E p \in Procs : verify_2fa_write(p)
  \/ \E p \in Procs : store_otp_delete(p, 1)
  \/ \E p \in Procs, otp \in OtpCodes : store_otp_insert(p, otp)
  \/ \E p \in Procs, otp \in OtpCodes : verify_otp_select(p, 1, otp)
  \/ \E p \in Procs : verify_otp_write(p)

SpecOtpKnown == InitAny /\ [][NextOtpKnown]_vars

\* the requests for a code alone, for known and unknown identities, served by
\* any of the three modules
NextOtpIssue ==
  \/ Tick
  \/ \E p \in Procs, u \in UserIds : send_2fa_begin(p, u)
  \/ \E p \in Procs, otp \in OtpCodes : send_2fa_upsert(p, otp)
  \/ \E p \in Procs, u \in UserIds : store_otp_delete(p, u)
  \/ \E p \in Procs, otp \in OtpCodes : store_otp_insert(p, otp)

SpecOtpIssue == InitAny /\ [][NextOtpIssue]_vars

(* --------------------------------------------- clearing out expired codes *)
\* the rows a DELETE ... WHERE expires_at <= t would match
ExpiredOtpRows_OrAt(tbl, t) == {r \in tbl : r.expires_at <= t}
\* WHERE expires_at < $1 (two_fa.rs) and WHERE expires_at < NOW() (service.rs)
ExpiredOtpRows(tbl, t) == {r \in tbl : r.expires_at < t}

\* the decimal digits, as Display for integers prints them
DigitChar == <<"0", "1", "2", "3", "4", "5", "6", "7", "8", "9">>
\* Ok(result.rows_affected()), the number as it prints
RowsAffected(n) == Answer("Ok", DigitChar[n + 1])

\* cleanup_expired_otps of two_fa.rs and two_fa/service.rs: one DELETE on a
\* connection of the pool, bound to the time of the call in either module.
\* The statement waits for the row lock of a row it matches.
cleanup_expired_otps ==
  /\ pool > 0
  /\ mounted \in Impls
  /\ \A u \in UserIds : otpLock[u] # 0 =>
        {r \in ExpiredOtpRows(user_2fa, now) : r.user_id = u} = {}
  /\ user_2fa' = user_2fa \ ExpiredOtpRows(user_2fa, now)
  /\ last' = [req |-> [ReqInit EXCEPT !.op = "cleanup_expired_otps"],
              res |-> RowsAffected(Cardinality(ExpiredOtpRows(user_2fa, now))),
              log |-> {}]
  /\ UNCHANGED <<now, mounted, pool, nonces, nonceLock, users, otpLock,
                 nextId, procVars, hist>>

\* the job runs while codes are being issued
NextOtpCleanup ==
  \/ Tick
  \/ \E p \in Procs, u \in UserIds : store_otp_delete(p, u)
  \/ \E p \in Procs, otp \in OtpCodes : store_otp_insert(p, otp)
  \/ cleanup_expired_otps

\* either module, with the row of a second user that expires on its own
InitCleanup ==
  /\ InitCore
  /\ mounted \in Impls
  /\ users = InitUsers \cup {BystanderUser}
  /\ user_2fa = {BystanderRow}

SpecOtpCleanup == InitCleanup /\ [][NextOtpCleanup]_vars

(* ------------------------------- handlers/two_fa.rs verify_2fa: the format *)
\* what a client can type into `otp`: its characters, and the same as text
ArabicIndic == {"U+0661", "U+0662", "U+0663"}   \* digits outside ASCII
TypedOtps ==
  {[text |-> "111111",  chars |-> <<"1", "1", "1", "1", "1", "1">>],
   [text |-> "222222",  chars |-> <<"2", "2", "2", "2", "2", "2">>],
   [text |-> "12345",   chars |-> <<"1", "2", "3", "4", "5">>],
   [text |-> "1234567", chars |-> <<"1", "2", "3", "4", "5", "6", "7">>],
   [text |-> "abc123",  chars |-> <<"a", "b", "c", "1", "2", "3">>],
   [text |-> "U+0661 U+0662 U+0663", chars |-> <<"U+0661", "U+0662", "U+0663">>],
   [text |-> "",        chars |-> <<>>]}

\* the bytes of a character in UTF-8
Utf8Len(c) == IF c \in ArabicIndic THEN 2 ELSE 1
\* str::len(): the length in bytes
RECURSIVE StrLen(_)
StrLen(chars) == IF chars = <<>> THEN 0 ELSE Utf8Len(Head(chars)) + StrLen(Tail(chars))
\* char::is_ascii_digit
IsAsciiDigit(c) == \E i \in 1..10 : DigitChar[i] = c

\* payload.otp.len() != 6 || !payload.otp.chars().all(|c| c.is_ascii_digit())
\* is false
\* (variant: only the length is looked at)
OtpFormatOk_LenOnly(chars) == StrLen(chars) = 6
OtpFormatOk(chars) ==
  /\ StrLen(chars) = 6
  /\ \A i \in 1..Len(chars) : IsAsciiDigit(chars[i])

\* verify_2fa of handlers/two_fa.rs: the format of the code, then
\* verify_otp_from_db of two_fa.rs
handlers_verify_2fa(p, u, typed) ==
  LET r == [ReqInit EXCEPT !.op = "handlers::verify_2fa", !.user = u,
                           !.otp = typed.text]
  IN
  /\ mounted = "two_fa"
  /\ IF ~OtpFormatOk(typed.chars)
       THEN /\ FreeWorker(p)
            /\ last' = [req |-> r,
                        res |-> BadRequest("Invalid OTP format. Must be 6 digits"),
                        log |-> {}]
            /\ UNCHANGED <<now, mounted, pool, dbVars, procVars, hist>>
       ELSE VerifyOtpFetch(p, r, r)

NextOtpHandler ==
  \/ Tick
  \/ \E p \in Procs, u \in UserIds, typed \in TypedOtps : handlers_verify_2fa(p, u, typed)
  \/ \E p \in Procs : verify_otp_write(p)

\* the code 111111 was issued to user 1 at minute 0
InitHandler ==
  /\ InitCore
  /\ mounted = "two_fa"
  /\ users = InitUsers
  /\ user_2fa = {OtpRow(0, 1, BcryptHash("111111", 0), OTP_EXPIRY_MINUTES, 0)}

SpecOtpHandler == InitHandler /\ [][NextOtpHandler]_vars

(***************************************************************************)
(* Bearer tokens: login_user issues them, the extractors AuthenticatedUser *)
(* and AuthenticatedAdmin decode them                                      *)
(***************************************************************************)
\* the password whose bcrypt hash is the users row's "bcrypt"
Password      == "password"
WrongPassword == "guess"

\* what a client can type as its password, the marker of web3_login included
Passwords == {Password, WrongPassword, "web3-auth-none"}

\* bcrypt::verify(&payload.password, &user.password_hash): "web3-auth-none"
\* is no bcrypt hash, verify returns Err
\* (variant: a stored value that is no hash is compared as it is)
VerifyPassword_Plain(pw, h) == IF pw = h \/ (pw = Password /\ h = "bcrypt") THEN "valid" ELSE "invalid"
VerifyPassword(pw, h) ==
  IF h = "web3-auth-none" THEN "error"
  ELSE IF pw = Password THEN "valid" ELSE "invalid"

\* login_admin's AdminClaims, encoded like the user's
EncodeAdminToken(aid, email, role, t) ==
  [NoToken EXCEPT !.enc = "jwt", !.admin_id = aid, !.email = email,
                  !.role = role, !.exp = t + TOKEN_TTL_MINUTES, !.key = JwtSecret]

\* a string that is no JWT
Garbage == [NoToken EXCEPT !.enc = "garbage"]

\* the users table once the wallet GA has logged in for the first time
Web3User == [id |-> 101, email |-> Web3Email("GA"),
             password_hash |-> "web3-auth-none", wallet_address |-> "GA"]
AdminEmail == <<"admin", "@example.com">>

\* the tokens that the login handlers returned during the day before: one of
\* login_user, one of web3_login, one of login_admin, all issued at t0
EarlierIssue == {e - TOKEN_TTL_MINUTES : e \in 0..MaxTime}
EarlierTokens(t0) ==
  {EncodeUserToken(u.id, u.email, t0) : u \in InitUsers \cup {Web3User}}
    \cup {EncodeAdminToken(1, AdminEmail, "admin", t0)}

InitToken ==
  /\ InitIdle
  /\ mounted = "auth"
  /\ users = InitUsers \cup {Web3User}
  /\ user_2fa = {}
  /\ \E t0 \in EarlierIssue : hist = [HistInit EXCEPT !.issued = EarlierTokens(t0)]

\* login_user: SELECT ... FROM users WHERE email = $1; bcrypt verify; the JWT
Emails == {u.email : u \in InitUsers \cup {Web3User}} \cup {<<"nobody", "@example.com">>}
login_user(email, pw) ==
  LET rows == {u \in users : u.email = email}
      user == CHOOSE u \in rows : TRUE
      res  == IF rows = {} THEN Unauthorized
              ELSE IF VerifyPassword(pw, user.password_hash) = "error" THEN Internal
              ELSE IF VerifyPassword(pw, user.password_hash) = "invalid"
                THEN Unauthorized
              ELSE OkToken(EncodeUserToken(user.id, user.email, now))
  IN
  /\ pool > 0
  /\ Cardinality(hist.issued) < Cardinality(EarlierTokens(0)) + MaxReqs
  /\ last' = [req |-> [ReqInit EXCEPT !.op = "login_user",
                         !.user = IF rows = {} THEN 0 ELSE user.id],
              res |-> res, log |-> {}]
  /\ hist' = [hist EXCEPT !.issued =
                IF res.status = "Ok" THEN @ \cup {res.token} ELSE @]
  /\ UNCHANGED <<now, mounted, pool, dbVars, procVars>>

\* jsonwebtoken::decode with Validation::default(): three base64 segments,
\* the HS256 signature under the secret, exp not older than the leeway, then
\* the payload deserialized into the claims type
\* (variant: no signature verifies)
Hs256Verifies_Never(token, secret) == FALSE
Hs256Verifies(token, secret) == token.key = secret

TokenExpired(exp, t) == exp < t - JWT_LEEWAY_MINUTES

IsUserClaims(token)  == token.user_id # 0 /\ token.email # <<>>
IsAdminClaims(token) == token.admin_id # 0 /\ token.email # <<>> /\ token.role # ""

\* jsonwebtoken::decode with Validation::default(): the three parts, the HS256
\* signature, exp; nothing is read from the database
\* (variant: the subject's users row is looked up as well)
DecodeValid_SubjectStored(token, secret, t) == token.enc = "jwt" /\ Hs256Verifies(token, secret) /\ ~TokenExpired(token.exp, t) /\ (\E r \in users : r.id = token.user_id)
DecodeValid(token, secret, t) ==
  /\ token.enc = "jwt"
  /\ Hs256Verifies(token, secret)
  /\ ~TokenExpired(token.exp, t)

\* the decoded claims: fields that the type does not have are dropped
UserClaims(token) ==
  [NoToken EXCEPT !.enc = "claims", !.user_id = token.user_id,
                  !.email = token.email, !.exp = token.exp]
AdminClaims(token) ==
  [NoToken EXCEPT !.enc = "claims", !.admin_id = token.admin_id,
                  !.email = token.email, !.role = token.role, !.exp = token.exp]

\* from_request_parts: Config from the extensions, the Authorization header,
\* its "Bearer " prefix, decode
Extractors == {"AuthenticatedUser", "AuthenticatedAdmin"}

\* the claims type that the extractor decodes into: serde wants every field
\* of the struct in the payload
\* (variant: a field that is missing is defaulted)
HasClaims_Defaulted(extractor, token) == token.email # <<>>
HasClaims(extractor, token) ==
  IF extractor = "AuthenticatedUser" THEN IsUserClaims(token)
                                     ELSE IsAdminClaims(token)
ClaimsOf(extractor, token) ==
  IF extractor = "AuthenticatedUser" THEN UserClaims(token)
                                     ELSE AdminClaims(token)

FromRequestParts(extractor, parts, t) ==
  LET h == parts.authorization IN
  IF ~parts.config.present THEN Internal
  ELSE IF ~h.present THEN Unauthorized
  ELSE IF h.scheme # "Bearer " THEN Unauthorized
  ELSE IF /\ DecodeValid(h.token, parts.config.jwt_secret, t)
          /\ HasClaims(extractor, h.token)
    THEN OkToken(ClaimsOf(extractor, h.token))
    ELSE Unauthorized

\* what a client can put into the header: a token it was given, the same with
\* another exp or user and therefore signed with another secret, no JWT at all
Schemes == {"Bearer ", "Basic "}
Forged(issued) == {[tok EXCEPT !.key = OtherSecret] : tok \in issued}
PartsInputs(issued) ==
  {[config |-> c, authorization |-> h] :
     c \in {NoConfig, Config},
     h \in {NoHeader} \cup
           {Header(sch, tok) : sch \in Schemes,
                               tok \in issued \cup Forged(issued) \cup {Garbage}}}

AuthenticatedUser(parts) ==
  /\ last' = [req |-> [ReqInit EXCEPT !.op = "AuthenticatedUser", !.parts = parts],
              res |-> FromRequestParts("AuthenticatedUser", parts, now),
              log |-> {}]
  /\ UNCHANGED <<now, mounted, pool, dbVars, procVars, hist>>

AuthenticatedAdmin(parts) ==
  /\ last' = [req |-> [ReqInit EXCEPT !.op = "AuthenticatedAdmin", !.parts = parts],
              res |-> FromRequestParts("AuthenticatedAdmin", parts, now),
              log |-> {}]
  /\ UNCHANGED <<now, mounted, pool, dbVars, procVars, hist>>

NextToken ==
  \/ Tick
  \/ \E email \in Emails, pw \in Passwords : login_user(email, pw)
  \/ \E parts \in PartsInputs(hist.issued) : AuthenticatedUser(parts)
  \/ \E parts \in PartsInputs(hist.issued) : AuthenticatedAdmin(parts)

SpecToken == InitToken /\ [][NextToken]_vars

\* Rows go away under the extractors: the users of a test are deleted after
\* it (DELETE FROM users WHERE id = $1 OR id = $2), a nonce is consumed, a
\* code is cleaned up.  No request is answered by it, the last answer stays
\* on record.
rows_deleted ==
  /\ users' \in SUBSET users
  /\ nonces' \in SUBSET nonces
  /\ user_2fa' \in SUBSET user_2fa
  /\ <<users', nonces', user_2fa'>> # <<users, nonces, user_2fa>>
  /\ UNCHANGED <<now, mounted, pool, nonceLock, otpLock, nextId, procVars,
                 last, hist>>

NextTokenStored ==
  \/ Tick
  \/ rows_deleted
  \/ \E parts \in PartsInputs(hist.issued) : AuthenticatedUser(parts)
  \/ \E parts \in PartsInputs(hist.issued) : AuthenticatedAdmin(parts)

\* the tokens of the day before, with a nonce and a code in store
InitTokenStored ==
  /\ now = 0
  /\ pool = PoolSize
  /\ mounted = "auth"
  /\ nonces = UpsertNonce({}, "GA", 1, NONCE_TTL_MINUTES)
  /\ nonceLock = [a \in Addresses |-> 0]
  /\ otpLock = [u \in UserIds |-> 0]
  /\ nextId = 2
  /\ pc = [p \in Procs |-> "idle"]
  /\ req = [p \in Procs |-> ReqInit]
  /\ loc = [p \in Procs |-> LocInit]
  /\ last = NoLast
  /\ users = InitUsers \cup {Web3User}
  /\ user_2fa = {OtpRow(0, 1, BcryptHash("111111", 0), OTP_EXPIRY_MINUTES, 0)}
  /\ \E t0 \in EarlierIssue : hist = [HistInit EXCEPT !.issued = EarlierTokens(t0)]

SpecTokenStored == InitTokenStored /\ [][NextTokenStored]_vars

(***************************************************************************)
(* Generation of the OTP code: generate_otp of two_fa.rs and step 2 of     *)
(* send_2fa of auth.rs                                                     *)
(***************************************************************************)
\* four random bytes, each one of a few values; results of gen_range
ByteSamples  == {0, 1, 127, 128, 255}
RangeSamples == {100000, 100001, 123456, 500000, 999997, 999998}

\* u32::from_be_bytes(bytes) % m, for m below 2^23 (every intermediate value
\* stays below 2^31)
ShiftIn(x, byte, m) == ((x * 256) + byte) % m
U32Mod(bytes, m) ==
  ShiftIn(ShiftIn(ShiftIn(bytes[1] % m, bytes[2], m), bytes[3], m), bytes[4], m)

\* (u32::from_be_bytes(bytes) % 900_000) + 100_000
\* (variant: the draw is reduced modulo 1_000_000 and not offset)
OtpNumber_NoOffset(bytes) == U32Mod(bytes, 1000000)
OtpNumber(bytes) == U32Mod(bytes, 900000) + 100000

\* u32::to_string(): the decimal digits, most significant first
RECURSIVE U32ToString(_)
U32ToString(n) ==
  IF n < 10 THEN <<DigitChar[n + 1]>>
            ELSE Append(U32ToString(n \div 10), DigitChar[(n % 10) + 1])

\* generate_otp of two_fa.rs: rng.gen_range(100000..999999) gave n
generate_otp(n) ==
  /\ hist' = [hist EXCEPT !.generated = [by |-> "two_fa", otp |-> U32ToString(n)]]
  /\ last' = NoLast
  /\ UNCHANGED <<now, mounted, pool, dbVars, procVars>>

\* send_2fa of auth.rs, step 2: rng.fill(&mut bytes) gave the four bytes
send_2fa_generate(bytes) ==
  /\ hist' = [hist EXCEPT !.generated =
                [by |-> "auth", otp |-> U32ToString(OtpNumber(bytes))]]
  /\ last' = NoLast
  /\ UNCHANGED <<now, mounted, pool, dbVars, procVars>>

NextOtpGen ==
  \/ \E n \in RangeSamples : generate_otp(n)
  \/ \E bytes \in [1..4 -> ByteSamples] : send_2fa_generate(bytes)

SpecOtpGen == Init /\ [][NextOtpGen]_vars

(***************************************************************************)
(* Properties of the wallet login                                          *)
(***************************************************************************)
\* the step just taken answered a web3_login for a well-formed address with
\* the owner's signature over the nonce n
AnsweredOwnerLogin(n) ==
  /\ last.req.op = "web3_login"
  /\ last.req.addr \in Addresses
  /\ last.req.sig = Signed(last.req.addr, n)

C2_TokenOnlyByConsumingTheNonce ==
  [][\A p \in Procs :
       /\ (pc[p] = "wl_select" /\ pc'[p] = "wl_user") =>
            \E r \in nonces :
              /\ r.wallet_address = req[p].addr
              /\ r.expires_at >= now
              /\ req[p].sig = Signed(req[p].addr, r.nonce)
              /\ loc'[p].rows = {r}
       /\ (pc[p] # "idle" /\ pc'[p] = "idle" /\ last'.res.status = "Ok"
              /\ req[p].op = "web3_login") =>
            /\ pc[p] = "wl_consume"
            /\ \E r \in loc[p].rows :
                 /\ loc[p].rows = {r}
                 /\ r \in nonces
                 /\ req[p].sig = Signed(req[p].addr, r.nonce)
                 /\ nonces' = nonces \ {r}
                 /\ last'.res.token.user_id # 0
       /\ (pc[p] \in {"wl_user", "wl_insert", "wl_consume"}) =>
            /\ loc[p].rows \subseteq nonces
            /\ (pc'[p] = pc[p] => loc'[p].rows \subseteq nonces')
    ]_vars

\* C2 witness: a login has just returned a token
C2_Witness ==
  /\ last.req.op = "web3_login"
  /\ last.res.status = "Ok"
  /\ last.res.token.user_id # 0
  /\ hist.tokensFor[last.req.sig.msg] = 1

\* C3: after a successful web3_login for A no nonces row for A exists, and a
\* later web3_login for A with the same signature is answered Unauthorized
\* (a nonce never yields a second token).
C3_ConsumedNonceIsGone ==
  /\ (last.req.op = "web3_login" /\ last.res.status = "Ok")
        => ~(\E r \in nonces : r.wallet_address = last.req.addr)
  /\ \A n \in NonceVals :
       /\ hist.tokensFor[n] <= 1
       /\ (AnsweredOwnerLogin(n) /\ hist.tokensFor[n] >= 1 /\ last.res.status # "Ok")
             => last.res.status = "Unauthorized"

\* C3 witness: the owner's signature over an already consumed nonce was just
\* rejected, no nonce having been issued since
C3_Witness ==
  \E n \in NonceVals :
    /\ AnsweredOwnerLogin(n)
    /\ hist.tokensFor[n] = 1
    /\ last.res.status = "Unauthorized"
    /\ ~(\E r \in nonces : r.wallet_address = last.req.addr)

\* C4: once get_nonce(A) has replaced N1 by N2, a web3_login for A signed
\* over N1 is answered Unauthorized and leaves the nonces table as it was.
C4_SupersededNonceRejected ==
  [][\A p \in Procs, n \in NonceVals :
       (/\ pc[p] # "idle" /\ pc'[p] = "idle"
        /\ req[p].op = "web3_login"
        /\ req[p].sig = Signed(req[p].addr, n)
        /\ n \in hist.superseded)
       => /\ last'.res.status = "Unauthorized"
          /\ nonces' = nonces
    ]_vars

\* C4 witness: a login signed over the replaced nonce N1 was just rejected
\* while the row holds the live N2
C4_Witness ==
  \E n \in NonceVals :
    /\ AnsweredOwnerLogin(n)
    /\ n \in hist.superseded
    /\ last.res.status = "Unauthorized"
    /\ \E r \in nonces : r.wallet_address = last.req.addr /\ r.nonce # n
                          /\ r.expires_at >= now

(***************************************************************************)
(* Properties of the one-time passwords                                    *)
(***************************************************************************)
\* handler p answers a request for operation op in this step
Answers(p, op) == pc[p] # "idle" /\ pc'[p] = "idle" /\ req[p].op = op

\* C5: of the verify_2fa_internal calls that run concurrently with the correct
\* code of one live challenge, one succeeds (a challenge is never verified
\* twice) and every call that was waiting when it succeeded is answered
\* "No pending OTP found".
C5_ExactlyOneVerifySucceeds ==
  [][\A p \in Procs :
       Answers(p, "verify_2fa") =>
         /\ last'.res.status = "Ok" =>
              /\ pc[p] = "v2_write"
              /\ ReadRow(p).otp_hash.salt \notin hist.otpWon
         /\ p \in hist.beaten => last'.res = BadRequest("No pending OTP found")
    ]_vars

\* C5 witness: a verification has just succeeded while another call with the
\* correct code of the same challenge was waiting for the row
C5_Witness ==
  /\ last.req.op = "verify_2fa"
  /\ last.res.status = "Ok"
  /\ \E q \in hist.beaten : pc[q] = "v2_select" /\ req[q].otp = last.req.otp

\* C6: of the verify_otp_from_db calls that run concurrently with the correct
\* code of one stored challenge, at most one returns Ok(true).
C6_AtMostOneOkTrue ==
  [][\A p \in Procs :
       (Answers(p, "verify_otp_from_db") /\ last'.res = Answer("Ok", "true"))
         => ReadRow(p).otp_hash.salt \notin hist.otpWon
    ]_vars

\* C7: every wrong code is answered Invalid (Unauthorized) and adds one to
\* attempts; once attempts is 3, a submission of the correct code before the
\* expiry is answered "Too many verification attempts" and never accepted.
C7_FourthAttemptRejected ==
  [][\A p \in Procs :
       Answers(p, "verify_2fa") =>
         \A r \in OtpRowsOf(req[p].user) :
           /\ last'.res = Unauthorized =>
                /\ ~BcryptVerify(req[p].otp, r.otp_hash)
                /\ r.attempts < MAX_ATTEMPTS
                /\ user_2fa' = (user_2fa \ {r}) \cup {[r EXCEPT !.attempts = @ + 1]}
           /\ (/\ r.attempts = MAX_ATTEMPTS
               /\ BcryptVerify(req[p].otp, r.otp_hash)
               /\ now <= r.expires_at)
                => last'.res = BadRequest(TooManyVerify)
    ]_vars

\* C7 witness: the correct code was just rejected as attempts-exhausted, the
\* challenge being unexpired with attempts = 3
C7_Witness ==
  /\ last.req.op = "verify_2fa"
  /\ last.res = BadRequest(TooManyVerify)
  /\ \E r \in OtpRowsOf(last.req.user) :
       /\ r.attempts = MAX_ATTEMPTS
       /\ BcryptVerify(last.req.otp, r.otp_hash)
       /\ now <= r.expires_at

\* C8: when verify_2fa_internal rejects a request because attempts >= 3 or
\* because the challenge has expired, no user_2fa row of the identity is left.
C8_RejectionRemovesTheChallenge ==
  (/\ last.req.op = "verify_2fa"
   /\ last.res \in {BadRequest(TooManyVerify), BadRequest("OTP has expired")})
    => OtpRowsOf(last.req.user) = {}

\* C9: a submission that reads a challenge with fewer than 3 attempts when
\* now > expires_at is answered "OTP has expired", whatever the code, by
\* verify_2fa_internal and by verify_otp_from_db, and so is never accepted.
C9_ExpiredIsRejected ==
  [][\A p \in Procs :
       /\ (pc[p] = "v2_select" /\ pc'[p] # "v2_select") =>
            \A r \in OtpRowsOf(req[p].user) :
              (r.attempts < MAX_ATTEMPTS /\ now > r.expires_at)
                => /\ pc'[p] = "idle"
                   /\ last'.res = BadRequest("OTP has expired")
       /\ (pc[p] = "idle" /\ pc'[p] = "db_write") =>
            \A r \in OtpRowsOf(req'[p].user) :
              (r.attempts < MAX_ATTEMPTS /\ now > r.expires_at)
                => loc'[p].act = "expired"
       /\ (Answers(p, "verify_otp_from_db") /\ loc[p].act = "expired")
            => last'.res = BadRequest("OTP has expired")
    ]_vars

\* C9 witness: the correct code of a challenge with fewer than 3 attempts was
\* just rejected as expired
C9_Witness ==
  /\ last.req.op = "verify_2fa"
  /\ last.res = BadRequest("OTP has expired")
  /\ \E r \in OtpRowsOf(last.req.user) :
       /\ r.attempts < MAX_ATTEMPTS
       /\ BcryptVerify(last.req.otp, r.otp_hash)
       /\ now > r.expires_at

\* C10: under every interleaving of send_2fa and verify_2fa_internal calls,
\* the attempts of every user_2fa row are between 0 and 3.
C10_AttemptsWithinBound ==
  \A r \in user_2fa : r.attempts \in 0..MAX_ATTEMPTS

\* C10 witness: a row has reached attempts = 3 while a verification of the
\* same identity is in flight
C10_Witness ==
  \E r \in user_2fa :
    /\ r.attempts = MAX_ATTEMPTS
    /\ \E p \in Procs : pc[p] = "v2_select" /\ req[p].user = r.user_id

\* C11: for a challenge handled by verify_otp_from_db, under any interleaving
\* of concurrent verify calls, at most 3 wrong codes are compared against its
\* hash and the stored attempts counter never exceeds 3.
C11_DbAttemptsNeverExceedMax ==
  \A r \in user_2fa : mounted \in Impls => r.attempts <= MAX_ATTEMPTS

\* C12: a verify_2fa_internal call with a wrong code that reads a live,
\* unexpired challenge with attempts < 3 is answered Unauthorized; it adds
\* exactly 1 to that row's attempts, leaves the row present with the same
\* otp_hash and expires_at, and changes no other identity's row.
C12_WrongCodeOnlyAddsOneAttempt ==
  [][\A p \in Procs :
       /\ (pc[p] = "v2_select" /\ pc'[p] # "v2_select") =>
            \A r \in OtpRowsOf(req[p].user) :
              (/\ r.attempts < MAX_ATTEMPTS
               /\ now <= r.expires_at
               /\ ~BcryptVerify(req[p].otp, r.otp_hash))
                => /\ pc'[p] = "v2_write"
                   /\ loc'[p].act = "wrong"
                   /\ loc'[p].rows = {r}
                   /\ user_2fa' = user_2fa
       /\ (pc[p] = "v2_write" /\ loc[p].act = "wrong" /\ pc'[p] # "v2_write") =>
            /\ last'.res = Unauthorized
            /\ \E r \in OtpRowsOf(req[p].user) :
                 /\ loc[p].rows = {r}
                 /\ \E r2 \in user_2fa' :
                      /\ r2.user_id = r.user_id
                      /\ r2.attempts = r.attempts + 1
                      /\ r2.otp_hash = r.otp_hash
                      /\ r2.expires_at = r.expires_at
                      /\ r2.id = r.id
                      /\ user_2fa' \ {r2} = user_2fa \ {r}
    ]_vars

\* C12 witness: a wrong code was just answered Unauthorized; the identity's
\* row is present with attempts >= 1 next to another identity's row
C12_Witness ==
  /\ last.req.op = "verify_2fa"
  /\ last.res = Unauthorized
  /\ \E r \in OtpRowsOf(last.req.user) :
       /\ r.attempts >= 1
       /\ ~BcryptVerify(last.req.otp, r.otp_hash)
  /\ BystanderRow \in user_2fa

\* C13: a successful verify_2fa_internal leaves no user_2fa row of the
\* identity, and a later verification for the identity with the same code,
\* no send_2fa having come in between, is answered "No pending OTP found".
C13_VerifiedOtpIsGone ==
  [][\A p \in Procs :
       Answers(p, "verify_2fa") =>
         /\ last'.res.status = "Ok" =>
              /\ \E r \in user_2fa : r.user_id = req[p].user
              /\ ~(\E r \in user_2fa' : r.user_id = req[p].user)
         /\ [user |-> req[p].user, otp |-> req[p].otp] \in hist.otpUsed
              => /\ pc[p] = "v2_select"
                 /\ last'.res = BadRequest("No pending OTP found")
                 /\ user_2fa' = user_2fa
    ]_vars

\* C13 witness: the code that verified was just submitted again, without a
\* send_2fa in between, and rejected for want of a pending challenge
C13_Witness ==
  /\ last.req.op = "verify_2fa"
  /\ last.res = BadRequest("No pending OTP found")
  /\ [user |-> last.req.user, otp |-> last.req.otp] \in hist.otpUsed
  /\ BystanderRow \in user_2fa

\* C14: send_2fa for an identity that already has a challenge replaces it:
\* the row then holds the hash of the new code, expires_at = now + 5 minutes
\* and attempts = 0, no other row changes, and a verify with the previous
\* code, different from the new one, is answered Invalid (Unauthorized).
C14_SendReplacesTheChallenge ==
  [][\A p \in Procs :
       /\ Answers(p, "send_2fa") =>
            \A r \in user_2fa : r.user_id = req[p].user =>
              \E r2 \in user_2fa' :
                /\ r2.user_id = r.user_id
                /\ r2.attempts = 0
                /\ r2.expires_at = now + OTP_EXPIRY_MINUTES
                /\ \E c \in OtpCodes : r2.otp_hash = BcryptHash(c, nextId)
                /\ r2.otp_hash # r.otp_hash
                /\ user_2fa' \ {r2} = user_2fa \ {r}
                /\ last'.res.status = "Ok"
       /\ [user |-> req[p].user, otp |-> req[p].otp] \in hist.otpReplaced =>
            \A r \in user_2fa :
              (r.user_id = req[p].user /\ ~BcryptVerify(req[p].otp, r.otp_hash)) =>
                /\ (/\ pc[p] = "v2_select" /\ pc'[p] # "v2_select"
                    /\ r.attempts < MAX_ATTEMPTS /\ now <= r.expires_at)
                     => pc'[p] = "v2_write" /\ loc'[p].act = "wrong"
                /\ (pc[p] = "v2_write" /\ pc'[p] # "v2_write")
                     => last'.res = Unauthorized
    ]_vars

\* C14 witness: the code of the replaced challenge, different from the new
\* one, was just answered Unauthorized
C14_Witness ==
  /\ last.req.op = "verify_2fa"
  /\ last.res = Unauthorized
  /\ [user |-> last.req.user, otp |-> last.req.otp] \in hist.otpReplaced
  /\ \E r \in user_2fa :
       /\ r.user_id = last.req.user
       /\ ~BcryptVerify(last.req.otp, r.otp_hash)
       /\ r.attempts = 1

\* C15: in every reachable state, under any interleaving of get_nonce,
\* web3_login, send_2fa and verify_2fa_internal, there is at most one nonces
\* row per wallet address and at most one user_2fa row per identity.
C15_OneRowPerKey ==
  /\ \A a \in Addresses : Cardinality({r \in nonces : r.wallet_address = a}) <= 1
  /\ \A r1, r2 \in user_2fa : r1.user_id = r2.user_id => r1 = r2

\* C15 witness: both tables hold a row, written by a get_nonce and a send_2fa,
\* while a wallet login and an OTP verification are both in flight
C15_Witness ==
  /\ nonces # {}
  /\ user_2fa # {}
  /\ nextId > 2
  /\ \E p, q \in Procs : pc[p] = "wl_select" /\ pc[q] = "v2_select"

\* C16: store_otp's delete-then-insert acts as one atomic replace: under any
\* interleaving of concurrent store_otp and verify_otp_from_db calls for one
\* identity, the identity never has more than one user_2fa row, every
\* store_otp call succeeds, and no verify is answered "no OTP found" between
\* the delete and the insert of an issuance that replaces a challenge.
C16_StoreOtpIsAtomicReplace ==
  /\ \A r1, r2 \in user_2fa : r1.user_id = r2.user_id => r1 = r2
  /\ (last.req.op = "store_otp" /\ UserExists(last.req.user))
       => last.res.status = "Ok"
  /\ (/\ last.req.op = "verify_otp_from_db"
      /\ \E q \in Procs : /\ pc[q] = "st_insert"
                          /\ req[q].user = last.req.user
                          /\ loc[q].act = "replace")
       => last.res # BadRequest(NoOtpMsg(mounted))

\* C17: in every reachable state the plaintext of an issued OTP code appears
\* neither in the persisted user_2fa row (only its hash is stored) nor in any
\* log record written by the OTP issuance path.
C17_OtpNeverInPlaintext ==
  /\ \A r \in user_2fa :
       \E c \in OtpCodes, n \in 0..(MaxReqs + 1) : r.otp_hash = BcryptHash(c, n)
  /\ \A l \in last.log :
       \A i \in 1..Len(l.arg) : l.arg[i] \notin OtpCodes

\* the step just taken answered an extractor that had its Config and was given
\* the header "Bearer <token>"
AnsweredBearer(token) ==
  /\ last.req.op \in Extractors
  /\ last.req.parts.config = Config
  /\ last.req.parts.authorization = Header("Bearer ", token)

\* C18: a correctly signed bearer token presented to AuthenticatedUser or
\* AuthenticatedAdmin at a time now with expires_at <= now is rejected with
\* Unauthorized: no token is accepted at or after its expiry instant.
C18_ExpiredTokenIsRejected ==
  \A tok \in hist.issued :
    (AnsweredBearer(tok) /\ tok.exp <= now) => last.res = Unauthorized

C20_EveryFailureIsUnauthorized ==
  LET h == last.req.parts.authorization IN
  (/\ last.req.op \in Extractors
   /\ last.req.parts.config = Config
   /\ \/ ~h.present
      \/ h.scheme # "Bearer "
      \/ h.token.enc # "jwt"
      \/ h.token.key # JwtSecret
      \/ h.token.exp <= now)
    => last.res = Unauthorized

(***************************************************************************)
(* Properties of the wallet login's answers and of the identity it resolves*)
(***************************************************************************)
\* the signature is hex of 64 bytes
WellFormedSig(s) == s.enc \notin {"nothex", "wronglen"}

\* the step answers the login of p from its SELECT of the nonce row
AnswersFromSelect(p) ==
  /\ pc[p] = "wl_select"
  /\ pc'[p] = "idle"
  /\ nonceLock[req[p].addr] = 0

\* C21: for a web3_login request with a well-formed address and a well-formed
\* signature, the three failure reasons (no nonce row for the address, nonce
\* expired, signature not valid over the stored nonce) all produce the same
\* Unauthorized outcome.
C21_LoginFailuresLookAlike ==
  [][\A p \in Procs :
       (/\ AnswersFromSelect(p)
        /\ WellFormedSig(req[p].sig)
        /\ \/ \A r \in nonces : r.wallet_address # req[p].addr
           \/ \E r \in nonces : /\ r.wallet_address = req[p].addr
                                /\ \/ r.expires_at < now
                                   \/ req[p].sig # Signed(req[p].addr, r.nonce))
         => last'.res = Unauthorized]_vars

\* C21 witness: the owner's signature over the stored nonce, sent after the
\* nonce has expired, was answered Unauthorized (the row is still there)
C21_Witness ==
  /\ last.req.op = "web3_login"
  /\ last.res = Unauthorized
  /\ \E r \in nonces : /\ r.wallet_address = last.req.addr
                       /\ r.expires_at < now
                       /\ last.req.sig = Signed(last.req.addr, r.nonce)

\* C22: a web3_login request whose signature encoding is malformed (not valid
\* hex, or not the byte length of a signature) is answered BadRequest and
\* never Unauthorized, whatever the state of the nonce for that address
\* (absent, expired or live).
C22_MalformedSignatureIsBadRequest ==
  [][\A p \in Procs :
       (AnswersFromSelect(p) /\ ~WellFormedSig(req[p].sig))
         => last'.res.status = "BadRequest"]_vars

\* C23: for every wallet address A, under any interleaving of concurrent
\* web3_login requests (including concurrent first logins for A), at most one
\* users row with wallet_address = A is ever created.
C23_OneUserPerWallet ==
  \A a \in Addresses : Cardinality({r \in users : r.wallet_address = a}) <= 1

\* C23 witness: a first login has inserted the users row of its wallet and
\* has not committed yet, while another login for the same wallet waits
C23_Witness ==
  \E p, q \in Procs :
    /\ pc[p] = "wl_consume"
    /\ pc[q] = "wl_select"
    /\ req[q].addr = req[p].addr
    /\ WellFormedSig(req[q].sig)
    /\ \E r \in users : r.wallet_address = req[p].addr /\ r.id = loc[p].uid

AsciiDigits == {DigitChar[i] : i \in 1..10}

\* str.parse::<u32>() of a string of digits
DigitValue(c) == CHOOSE d \in 0..9 : DigitChar[d + 1] = c
RECURSIVE ParseDigits(_)
ParseDigits(str) ==
  IF str = <<>> THEN 0
  ELSE ParseDigits(SubSeq(str, 1, Len(str) - 1)) * 10 + DigitValue(str[Len(str)])

\* C25: every OTP code produced by generate_otp (two_fa.rs) and by send_2fa
\* (auth.rs) is a string of exactly 6 ASCII digits whose numeric value lies
\* in 100000..=999999, for every value of the underlying random draw.
C25_OtpIsSixDigits ==
  LET otp == hist.generated.otp IN
  hist.generated.by # "none" =>
    /\ Len(otp) = 6
    /\ \A i \in 1..Len(otp) : otp[i] \in AsciiDigits
    /\ ParseDigits(otp) >= 100000
    /\ ParseDigits(otp) <= 999999

\* C25 witness: send_2fa drew the largest u32, 4294967295, whose remainder
\* modulo 900000 is 167295
C25_Witness ==
  hist.generated = [by |-> "auth", otp |-> <<"2", "6", "7", "2", "9", "5">>]

(***************************************************************************)
(* Properties of the OTP verification's answers                            *)
(***************************************************************************)
\* C26: every rejection of an OTP verification (wrong code, expired
\* challenge, attempts exhausted) is mapped to the same external status
\* class, Unauthorized; the reasons differ only in the message.
C26_OtpRejectionsAreUnauthorized ==
  [][\A p \in Procs :
       (/\ Answers(p, "verify_2fa")
        /\ \E r \in user_2fa :
             /\ r.user_id = req[p].user
             /\ \/ r.attempts >= MAX_ATTEMPTS
                \/ r.expires_at < now
                \/ r.otp_hash.code # req[p].otp)
         => last'.res.status = "Unauthorized"]_vars

\* C27: if a verify_2fa_internal call is cancelled, times out or hits a
\* storage error at any suspension point before its commit, the identity's
\* row is exactly as it was before the call (attempts not incremented, row not
\* deleted); the row changes only when the call commits, and then by exactly
\* one step (attempts + 1, or row deleted).
C27_VerifyCommitsOrLeavesTheRow ==
  [][\A p \in Procs :
       (pc[p] \in {"v2_select", "v2_write", "v2_commit"} /\ pc'[p] # pc[p])
         => IF pc[p] = "v2_commit" /\ last'.res.status \in {"Ok", "Unauthorized"}
              THEN \E r \in user_2fa :
                     /\ r.user_id = req[p].user
                     /\ \/ user_2fa' = user_2fa \ {r}
                        \/ user_2fa' = (user_2fa \ {r})
                                         \cup {[r EXCEPT !.attempts = @ + 1]}
              ELSE user_2fa' = user_2fa]_vars

\* C27 witness: a call with a wrong code was cancelled after its UPDATE and
\* before its commit, and the row has no attempt counted
C27_Witness ==
  /\ last.req.op = "verify_2fa"
  /\ last.res = Cancelled("v2_commit")
  /\ \E r \in user_2fa : /\ r.user_id = last.req.user
                         /\ r.otp_hash.code # last.req.otp
                         /\ r.attempts = 0


\* the step just taken was a run of cleanup_expired_otps
CleanedUp == last.req.op = "cleanup_expired_otps"

\* C28: cleanup_expired_otps deletes exactly the user_2fa rows whose
\* expires_at is before the current time and returns their number: no row
\* that has not expired is deleted, and a run that directly follows another
\* at the same instant deletes nothing and returns 0
C28_CleanupDeletesExactlyTheExpired ==
  [][CleanedUp' =>
       /\ user_2fa' = {r \in user_2fa : r.expires_at >= now}
       /\ last'.res.status = "Ok"
       /\ last'.res.msg = DigitChar[Cardinality(user_2fa \ user_2fa') + 1]
       /\ (CleanedUp => user_2fa' = user_2fa /\ last'.res.msg = "0")]_vars

\* a run has deleted a row and left one that has not expired
C28_Witness ==
  /\ CleanedUp
  /\ last.res.msg = "1"
  /\ \E r \in user_2fa : r.expires_at >= now


\* the step just taken answered a request for a code
AnsweredOtpRequest == last.req.op \in {"send_2fa", "store_otp"}

\* C29: a request for a code for an identity that has no users row is
\* answered NotFound, and no user_2fa row is created or changed by it
C29_UnknownIdentityIsNotFound ==
  [][(AnsweredOtpRequest' /\ last'.req.user \notin {r.id : r \in users})
       => (last'.res.status = "NotFound" /\ user_2fa' = user_2fa)]_vars

\* an unknown identity was turned away while a code of a known one is stored
C29_Witness ==
  /\ AnsweredOtpRequest
  /\ last.req.user \notin {r.id : r \in users}
  /\ last.res = NotFound("User not found")
  /\ user_2fa # {}


ValidLoginAnswered ==
  /\ last'.req.op = "web3_login"
  /\ \E r \in nonces : /\ r.wallet_address = last'.req.addr
                       /\ r.expires_at >= now
                       /\ last'.req.sig = Signed(last'.req.addr, r.nonce)

\* C31: a web3_login that is turned away because its signature does not
\* verify over the stored, unexpired nonce leaves the nonces table as it was
\* (same nonce, same expires_at), and a login with a signature valid over that
\* nonce, before expiry and answered while no other request is in flight,
\* returns a token
C31_FailedSignatureKeepsTheNonce ==
  [][/\ \A p \in Procs :
          (/\ AnswersFromSelect(p)
           /\ WellFormedSig(req[p].sig)
           /\ \E r \in nonces : /\ r.wallet_address = req[p].addr
                                /\ r.expires_at >= now
                                /\ req[p].sig # Signed(req[p].addr, r.nonce))
            => (last'.res.token = NoToken /\ nonces' = nonces)
     /\ (ValidLoginAnswered /\ Cardinality({q \in Procs : pc[q] # "idle"}) = 1)
            => last'.res.status = "Ok"]_vars

\* a login with another key's signature was turned away and the nonce it was
\* tried on is still stored, unexpired
C31_Witness ==
  /\ last.req.op = "web3_login"
  /\ last.res = Unauthorized
  /\ \E r \in nonces : /\ r.wallet_address = last.req.addr
                       /\ r.expires_at >= now
                       /\ last.req.sig = Signed("GB", r.nonce)


\* C32: when a web3_login fails or is cancelled at any step, persisted state
\* is as before the request: a users row of the wallet is there only while
\* the login that inserted it is still on its way to the commit, or after a
\* login of the wallet has committed the consumption of its nonce
C32_NoUserRowWithoutCommit ==
  (\E r \in users : r.wallet_address = "GA")
    => \/ \E p \in Procs : pc[p] = "wl_consume" /\ req[p].addr = "GA"
       \/ \E n \in NonceVals : hist.tokensFor[n] > 0


\* C33: a web3_login that finds the nonces row of its address expired is
\* answered Unauthorized and purges the row: no expired nonces row of the
\* address is left after the request
C33_ExpiredNonceIsPurged ==
  [][\A p \in Procs :
       (/\ AnswersFromSelect(p)
        /\ \E r \in nonces : /\ r.wallet_address = req[p].addr
                             /\ r.expires_at < now)
         => /\ last'.res = Unauthorized
            /\ \A r \in nonces' : r.wallet_address = req[p].addr
                                    => r.expires_at >= now]_vars


\* C34: verify_2fa_internal applies its checks in the order row missing,
\* attempts exhausted, expired, hash comparison: a challenge that is exhausted
\* is reported as such also when it has expired, an expired one that is not
\* exhausted is reported expired, neither is compared with the submitted
\* code, and every other stored challenge is compared
C34_ChecksInOrder ==
  [][\A p \in Procs :
       (pc[p] = "v2_select" /\ pc'[p] # "v2_select")
         => LET rows == {r \in user_2fa : r.user_id = req[p].user} IN
            /\ rows = {} => last'.res = BadRequest("No pending OTP found")
            /\ \A r \in rows :
                 /\ r.attempts >= MAX_ATTEMPTS
                      => (last'.res = BadRequest(TooManyVerify) /\ pc'[p] = "idle")
                 /\ (r.attempts < MAX_ATTEMPTS /\ r.expires_at < now)
                      => (last'.res = BadRequest("OTP has expired") /\ pc'[p] = "idle")
                 /\ (r.attempts < MAX_ATTEMPTS /\ r.expires_at >= now)
                      => (pc'[p] = "v2_write" /\ last' = NoLast)]_vars

\* a challenge that is both exhausted and expired was reported exhausted
C34_Witness ==
  /\ last.req.op = "verify_2fa"
  /\ last.res = BadRequest(TooManyVerify)
  /\ \E r \in user_2fa : /\ r.user_id = last.req.user
                         /\ r.attempts >= MAX_ATTEMPTS
                         /\ r.expires_at < now


\* C35: verify_otp_from_db looks at the attempts before the expiry: a call
\* that fetches a challenge with attempts >= 3 whose expires_at has passed
\* decides on attempts-exhausted, not on expired
C35_ExhaustedBeforeExpired ==
  [][\A p \in Procs :
       (/\ pc[p] = "idle"
        /\ pc'[p] = "db_write"
        /\ \E r \in user_2fa : /\ r.user_id = req'[p].user
                               /\ r.attempts >= MAX_ATTEMPTS
                               /\ r.expires_at < now)
         => loc'[p].act = "max"]_vars


\* the characters of the code that request r submitted
SubmittedChars(r) == (CHOOSE typed \in TypedOtps : typed.text = r.otp).chars
\* exactly six characters, each one of 0..9
SixAsciiDigits(chars) ==
  /\ Len(chars) = 6
  /\ \A i \in 1..Len(chars) : chars[i] \in {"0", "1", "2", "3", "4", "5", "6", "7", "8", "9"}
\* requests of the verify_2fa handler of handlers/two_fa.rs whose code is not
\* six ASCII digits
Malformed(r) == r.op = "handlers::verify_2fa" /\ ~SixAsciiDigits(SubmittedChars(r))

\* C36: the verify_2fa handler of handlers/two_fa.rs answers a code that is
\* not exactly 6 ASCII digits with BadRequest before the store is consulted:
\* no such request is ever under way in verify_otp_from_db, and the step that
\* answers it leaves user_2fa, the challenge and its attempts, as it was
C36_MalformedCodeNeverReachesTheStore ==
  [][/\ \A p \in Procs : ~Malformed(req'[p])
     /\ Malformed(last'.req)
          => (last'.res.status = "BadRequest" /\ user_2fa' = user_2fa)]_vars

\* a code of six bytes that are not ASCII digits was turned away while the
\* identity's challenge is stored with attempts = 0
C36_Witness ==
  /\ Malformed(last.req)
  /\ last.req.otp = "abc123"
  /\ last.res = BadRequest("Invalid OTP format. Must be 6 digits")
  /\ \E r \in user_2fa : r.user_id = last.req.user /\ r.attempts = 0


\* C37: whatever the state of an identity's challenge (absent, exhausted with
\* attempts = 3, expired), a send_2fa for it leaves one challenge with the new
\* code, attempts = 0 and five minutes to live, and a verify with the code of
\* a challenge that has had no wrong submission and has not expired is
\* compared, found right, and answered with success
C37_SendRevivesTheChallenge ==
  [][\A p \in Procs :
       /\ (Answers(p, "send_2fa") /\ last'.res.status = "Ok")
            => \E r2 \in user_2fa' :
                 /\ r2.user_id = req[p].user
                 /\ r2.attempts = 0
                 /\ r2.expires_at = now + OTP_EXPIRY_MINUTES
                 /\ r2.otp_hash.salt = nextId
                 /\ \A r \in user_2fa' : r.user_id = req[p].user => r = r2
       /\ (/\ pc[p] = "v2_select" /\ pc'[p] # "v2_select"
           /\ \E r \in user_2fa : /\ r.user_id = req[p].user
                                  /\ r.otp_hash.code = req[p].otp
                                  /\ r.attempts = 0
                                  /\ r.expires_at >= now)
            => (pc'[p] = "v2_write" /\ loc'[p].act = "ok")
       /\ (pc[p] = "v2_write" /\ pc'[p] # "v2_write" /\ loc[p].act = "ok")
            => last'.res = Answer("Ok", "OTP verified successfully")]_vars

\* a verify has read the challenge that the first send_2fa put in the place
\* of the used-up one, and found its code right
C37_Witness ==
  \E p \in Procs :
    /\ pc[p] = "v2_write"
    /\ loc[p].act = "ok"
    /\ \E r \in loc[p].rows : r.id = ExhaustedRow.id /\ r.otp_hash.salt = 1 /\ r.attempts = 0


\* C38: a token issued for a user (UserClaims, no admin_id and no role in its
\* payload) is never accepted by AuthenticatedAdmin, and a token issued by
\* login_admin (AdminClaims, no user_id in its payload) is never accepted by
\* AuthenticatedUser, although both carry a valid signature of the same secret
C38_UserAndAdminTokensDoNotMix ==
  \A tok \in hist.issued :
    AnsweredBearer(tok) =>
      /\ (tok.admin_id = 0 /\ last.req.op = "AuthenticatedAdmin")
           => last.res = Unauthorized
      /\ (tok.user_id = 0 /\ last.req.op = "AuthenticatedUser")
           => last.res = Unauthorized

\* a user's token, signed with the configured secret and not expired, was
\* presented to AuthenticatedAdmin and turned away
C38_Witness ==
  \E tok \in hist.issued :
    /\ AnsweredBearer(tok)
    /\ last.req.op = "AuthenticatedAdmin"
    /\ tok.user_id # 0
    /\ tok.key = JwtSecret
    /\ now < tok.exp
    /\ last.res = Unauthorized


\* C39: an identity that web3_login created, stored with the password marker
\* 'web3-auth-none', gets no token from login_user, whatever password is
\* submitted: the request fails and the set of issued tokens stays as it was
C39_Web3IdentityHasNoPasswordLogin ==
  [][(/\ last'.req.op = "login_user"
      /\ \E u \in users : /\ u.id = last'.req.user
                          /\ u.password_hash = "web3-auth-none")
       => /\ last'.res.status \in {"Internal", "Unauthorized"}
          /\ last'.res.token = NoToken
          /\ hist'.issued = hist.issued]_vars

\* login_user for the e-mail of the wallet GA's identity has failed closed
C39_Witness ==
  /\ last.req.op = "login_user"
  /\ last.req.user = Web3User.id
  /\ Web3User \in users
  /\ last.res = Internal


\* C40: with a pool of k connections and up to k concurrent web3_login
\* requests, the logins in flight are never all blocked: one of them, at
\* least, neither waits for the nonce row lock nor for a second connection
C40_SomeLoginCanMove ==
  (\E q \in Procs : HoldsConn(q)) => \E q \in Procs : HoldsConn(q) /\ ~Stuck(q)

====
